---- MODULE Spec2Model ----
(***************************************************************************)
(* search_message_transactions of hyperlane-sealevel (transaction.rs):     *)
(* the lazy iterator pipeline                                              *)
(*    enumerate -> filter_by_encoding -> filter_by_validity                *)
(*              -> filter_by_relevancy -> collect                          *)
(* over a batch of EncodedTransactionWithStatusMeta.                       *)
(***************************************************************************)
EXTENDS Integers, Sequences, FiniteSets, TLC

VARIABLES
    transactions,                       \* the batch handed to search_message_transactions
    is_specified_message_instruction,   \* the caller-supplied predicate F
    index,                              \* enumerate()'s counter: position of the item in the pipeline
    stage,                              \* which filter the current item is in front of
    cur,                                \* the value the previous filter_map stage handed on
    locals,                             \* locals of the last filter_by_relevancy call
    result                              \* the Vec<(usize, H512)> being collected

vars == <<transactions, is_specified_message_instruction, index, stage, cur, locals, result>>

\* `as u8` keeps the low 8 bits of a usize.
U8 == 256

\* Bounds of the model.
MaxBatch == 3      \* transactions in a batch
MaxSigs == 2       \* signatures of a transaction
MaxKeys == 3       \* keys of a short account key list
MaxTail == 2       \* keys after the filler of a long account key list
MaxTop == 2        \* top-level instructions of a message
MaxInner == 3      \* inner instructions recorded in the metadata
MaxFlat == 3       \* top-level plus inner instructions of a message

----------------------------------------------------------------------------
\* Option<T> and OptionSerializer<T>

None == [some |-> FALSE]
Some(v) == [some |-> TRUE, val |-> v]

OptNone == [tag |-> "None"]
OptSkip == [tag |-> "Skip"]
OptSome(v) == [tag |-> "Some", val |-> v]

\* Sequences over S of length lo..hi.
SeqsOf(S, lo, hi) == UNION {[1..n -> S] : n \in lo..hi}

Range(s) == {s[i] : i \in DOMAIN s}

----------------------------------------------------------------------------
\* External collaborators (crate::utils, solana_sdk, hyperlane_sealevel_mailbox).

\* Pubkey::to_string: the base58 text of a public key.
PubkeyToString(pk) ==
    CASE pk = "pk_mailbox" -> "Mailbox"
      [] pk = "pk_message_pda" -> "MsgPda"
      [] OTHER -> "System"

\* decode_h512: the 64-byte value of a base58 signature, or a decode error.
decode_h512(signature) ==
    CASE signature = "sigA" -> [ok |-> TRUE, val |-> "hashA"]
      [] signature = "sigB" -> [ok |-> TRUE, val |-> "hashB"]
      [] OTHER -> [ok |-> FALSE]

\* from_base58: the bytes of a base58 payload, or a decode error ('0' is not
\* a base58 digit).
from_base58(data) ==
    CASE data = "0" -> [ok |-> FALSE]
      [] data = "2" -> [ok |-> TRUE, val |-> "bytes_inbox_process"]
      [] data = "5" -> [ok |-> TRUE, val |-> "bytes_outbox_dispatch"]
      [] data = "6" -> [ok |-> TRUE, val |-> "bytes_outbox_get_count"]
      [] OTHER -> [ok |-> TRUE, val |-> "bytes_unknown"]

\* Instruction::from_instruction_data: the typed instruction, or a parse error.
from_instruction_data(bytes) ==
    CASE bytes = "bytes_inbox_process" -> [ok |-> TRUE, val |-> "InboxProcess"]
      [] bytes = "bytes_outbox_dispatch" -> [ok |-> TRUE, val |-> "OutboxDispatch"]
      [] bytes = "bytes_outbox_get_count" -> [ok |-> TRUE, val |-> "OutboxGetCount"]
      [] OTHER -> [ok |-> FALSE]

----------------------------------------------------------------------------
\* The parameters of the call.

mailbox_program_id == "pk_mailbox"
message_storage_pda_pubkey == "pk_message_pda"

\* Faulty variant: the negation is missing.
MutNoNegDispatch(instruction) == instruction = "OutboxDispatch"

is_message_dispatch_instruction(instruction) == ~(instruction = "OutboxDispatch")

is_message_delivery_instruction(instruction) == ~(instruction = "InboxProcess")

\* The predicate F applied to a decoded instruction.  The two named predicates
\* of the module, and two closures that return true for the instruction the
\* caller is looking for.
Apply(f, instruction) ==
    CASE f = "is_message_dispatch_instruction" -> is_message_dispatch_instruction(instruction)
      [] f = "is_message_delivery_instruction" -> is_message_delivery_instruction(instruction)
      [] f = "true_for_outbox_dispatch" -> instruction = "OutboxDispatch"
      [] f = "true_for_inbox_process" -> instruction = "InboxProcess"

NamedPredicates == {"is_message_dispatch_instruction", "is_message_delivery_instruction"}
Predicates == NamedPredicates \cup {"true_for_outbox_dispatch", "true_for_inbox_process"}

----------------------------------------------------------------------------
\* filter_by_encoding

filter_by_encoding(tx) ==
    IF tx.transaction.enc = "Json" /\ tx.meta.some
    THEN Some([tx |-> tx.transaction.json, meta |-> tx.meta.val])
    ELSE None

----------------------------------------------------------------------------
\* instructions

\* ii.into_iter().flat_map(|ii| ii.instructions)
RECURSIVE FlatMapInstructions(_)
FlatMapInstructions(ii) ==
    IF ii = <<>> THEN <<>>
    ELSE Head(ii).instructions \o FlatMapInstructions(Tail(ii))

\* .flat_map(|ii| match ii { UiInstruction::Compiled(ci) => Some(ci), _ => None })
RECURSIVE CompiledOnly(_)
CompiledOnly(uis) ==
    IF uis = <<>> THEN <<>>
    ELSE IF Head(uis).kind = "Compiled"
         THEN <<Head(uis).ci>> \o CompiledOnly(Tail(uis))
         ELSE CompiledOnly(Tail(uis))

\* Faulty variant: the inner instructions are left out.
MutTopOnly(instruction, meta) == instruction

\* Faulty variant: the inner instructions come first.
MutInnerFirst(instruction, meta) ==
    (IF meta.inner_instructions.tag = "Some"
     THEN CompiledOnly(FlatMapInstructions(meta.inner_instructions.val))
     ELSE <<>>) \o instruction

instructions(instruction, meta) ==
    LET inner_instructions ==
            IF meta.inner_instructions.tag = "Some"
            THEN CompiledOnly(FlatMapInstructions(meta.inner_instructions.val))
            ELSE <<>>
    IN  instruction \o inner_instructions

----------------------------------------------------------------------------
\* filter_by_validity

\* Faulty variant: the last signature instead of the first.
MutLastSignature(signatures) ==
    IF signatures = <<>> THEN None ELSE Some(signatures[Len(signatures)])

\* tx.signatures.first()
first(signatures) ==
    IF signatures = <<>> THEN None ELSE Some(signatures[1])

filter_by_validity(tx, meta) ==
    LET sig == first(tx.signatures)
        decoded == IF sig.some THEN decode_h512(sig.val) ELSE [ok |-> FALSE]
    IN  IF ~decoded.ok THEN None
        ELSE IF tx.message.form # "Raw" THEN None
        ELSE Some([hash |-> decoded.val,
                   account_keys |-> tx.message.account_keys,
                   instructions |-> instructions(tx.message.instructions, meta)])

----------------------------------------------------------------------------
\* account_index_map and filter_by_relevancy

\* HashMap insertion of the entries of m2 after those of m1: a later entry for
\* the same key replaces the earlier one.
Extend(m1, m2) ==
    [x \in (DOMAIN m1) \cup (DOMAIN m2) |-> IF x \in DOMAIN m2 THEN m2[x] ELSE m1[x]]

\* The map collected from the entries (account_keys[i], i - 1), i in lo..hi,
\* inserted in order (the range is halved to keep the recursion shallow).
RECURSIVE CollectMap(_, _, _)
CollectMap(account_keys, lo, hi) ==
    IF lo > hi THEN <<>>
    ELSE IF lo = hi THEN [x \in {account_keys[lo]} |-> lo - 1]
    ELSE LET mid == (lo + hi) \div 2
         IN  Extend(CollectMap(account_keys, lo, mid), CollectMap(account_keys, mid + 1, hi))

\* enumerate().map(|(index, key)| (key, index)).collect::<HashMap<String, usize>>()
account_index_map(account_keys) == CollectMap(account_keys, 1, Len(account_keys))

\* Faulty variant: the index keeps its full width.
MutNoNarrowing(i) == i

\* `*i as u8`
AsU8(i) == i % U8

\* Faulty variant: a missing key counts as index 0.
MutDefaultIndex(map, key) == IF key \in DOMAIN map THEN Some(AsU8(map[key])) ELSE Some(0)

\* match account_index_map.get(&key) { Some(i) => *i as u8, None => return None }
IndexOf(map, key) == IF key \in DOMAIN map THEN Some(AsU8(map[key])) ELSE None

\* Faulty variant: the last such instruction instead of the first.
RECURSIVE MutFindLast(_, _)
MutFindLast(instrs, program_index) ==
    IF instrs = <<>> THEN None
    ELSE IF instrs[Len(instrs)].program_id_index = program_index
         THEN Some(instrs[Len(instrs)])
         ELSE MutFindLast(SubSeq(instrs, 1, Len(instrs) - 1), program_index)

\* instructions.into_iter().find(|i| i.program_id_index == mailbox_program_index)
RECURSIVE Find(_, _)
Find(instrs, program_index) ==
    IF instrs = <<>> THEN None
    ELSE IF Head(instrs).program_id_index = program_index
         THEN Some(Head(instrs))
         ELSE Find(Tail(instrs), program_index)

\* mailbox_program.accounts.contains(&message_storage_pda_account_index)
Contains(accounts, account_index) == \E i \in DOMAIN accounts : accounts[i] = account_index

\* Faulty variant: a payload that is not base58 passes as a dispatch.
MutAcceptUndecodable(data) ==
    LET instruction_data == from_base58(data)
    IN  IF ~instruction_data.ok THEN Some("OutboxDispatch")
        ELSE LET instruction == from_instruction_data(instruction_data.val)
             IN  IF ~instruction.ok THEN None ELSE Some(instruction.val)

\* from_base58 followed by Instruction::from_instruction_data; either error
\* is a None.
DecodeInstruction(data) ==
    LET instruction_data == from_base58(data)
    IN  IF ~instruction_data.ok THEN None
        ELSE LET instruction == from_instruction_data(instruction_data.val)
             IN  IF ~instruction.ok THEN None ELSE Some(instruction.val)

\* The locals of filter_by_relevancy, as far as the call got.
RelevancyLocals(program_id, pda_pubkey, account_keys, instrs) ==
    LET map == account_index_map(account_keys)
        mailbox_program_index == IndexOf(map, PubkeyToString(program_id))
        message_storage_pda_account_index == IndexOf(map, PubkeyToString(pda_pubkey))
        mailbox_program_maybe ==
            IF mailbox_program_index.some /\ message_storage_pda_account_index.some
            THEN Find(instrs, mailbox_program_index.val)
            ELSE None
        instruction ==
            IF mailbox_program_maybe.some
               /\ Contains(mailbox_program_maybe.val.accounts, message_storage_pda_account_index.val)
            THEN DecodeInstruction(mailbox_program_maybe.val.data)
            ELSE None
    IN  [mailbox_program_index |-> mailbox_program_index,
         message_storage_pda_account_index |-> message_storage_pda_account_index,
         mailbox_program |-> mailbox_program_maybe,
         instruction |-> instruction]

filter_by_relevancy(program_id, pda_pubkey, hash, account_keys, instrs, f) ==
    LET l == RelevancyLocals(program_id, pda_pubkey, account_keys, instrs)
    IN  IF ~l.mailbox_program_index.some THEN None
        ELSE IF ~l.message_storage_pda_account_index.some THEN None
        ELSE IF ~l.mailbox_program.some THEN None
        ELSE IF ~Contains(l.mailbox_program.val.accounts, l.message_storage_pda_account_index.val)
             THEN None
        ELSE IF ~l.instruction.some THEN None
        ELSE IF Apply(f, l.instruction.val) THEN None
        ELSE Some(hash)

----------------------------------------------------------------------------
\* The pipeline of search_message_transactions, one filter_map stage per step.

\* Faulty variant: the position among the survivors instead of the batch index.
MutPushRank(res, i, hash) == Append(res, <<Len(res), hash>>)

\* .map(|hash| (index, hash)) and collect
Push(res, i, hash) == Append(res, <<i, hash>>)

\* What the filter_map chain makes of one transaction.
Pipeline(tx, f) ==
    LET e == filter_by_encoding(tx)
    IN  IF ~e.some THEN None
        ELSE LET v == filter_by_validity(e.val.tx, e.val.meta)
             IN  IF ~v.some THEN None
                 ELSE filter_by_relevancy(mailbox_program_id, message_storage_pda_pubkey,
                                          v.val.hash, v.val.account_keys, v.val.instructions, f)

FilterByEncoding ==
    /\ stage = "encoding"
    /\ index < Len(transactions)
    /\ LET r == filter_by_encoding(transactions[index + 1])
       IN  IF r.some
           THEN /\ cur' = r
                /\ stage' = "validity"
                /\ index' = index
           ELSE /\ cur' = None
                /\ stage' = "encoding"
                /\ index' = index + 1
    /\ UNCHANGED <<transactions, is_specified_message_instruction, locals, result>>

FilterByValidity ==
    /\ stage = "validity"
    /\ LET r == filter_by_validity(cur.val.tx, cur.val.meta)
       IN  IF r.some
           THEN /\ cur' = r
                /\ stage' = "relevancy"
                /\ index' = index
           ELSE /\ cur' = None
                /\ stage' = "encoding"
                /\ index' = index + 1
    /\ UNCHANGED <<transactions, is_specified_message_instruction, locals, result>>

FilterByRelevancy ==
    /\ stage = "relevancy"
    /\ LET r == filter_by_relevancy(mailbox_program_id, message_storage_pda_pubkey,
                                    cur.val.hash, cur.val.account_keys, cur.val.instructions,
                                    is_specified_message_instruction)
       IN  result' = IF r.some THEN Push(result, index, r.val) ELSE result
    /\ locals' = Some([index |-> index,
                       l |-> RelevancyLocals(mailbox_program_id, message_storage_pda_pubkey,
                                             cur.val.account_keys, cur.val.instructions)])
    /\ cur' = None
    /\ stage' = "encoding"
    /\ index' = index + 1
    /\ UNCHANGED <<transactions, is_specified_message_instruction>>

\* The iterator is exhausted: collect() returns the vector.
Return ==
    /\ stage = "encoding"
    /\ index = Len(transactions)
    /\ stage' = "done"
    /\ UNCHANGED <<transactions, is_specified_message_instruction, index, cur, locals, result>>

Next == FilterByEncoding \/ FilterByValidity \/ FilterByRelevancy \/ Return

----------------------------------------------------------------------------
\* Inputs.

Compiled(p, a, d) == [program_id_index |-> p, accounts |-> a, data |-> d]
UiCompiled(ci) == [kind |-> "Compiled", ci |-> ci]
UiParsed == [kind |-> "Parsed"]
UiInnerInstructions(i, uis) == [index |-> i, instructions |-> uis]
Meta(inner) == [inner_instructions |-> inner]
RawMessage(keys, instrs) == [form |-> "Raw", account_keys |-> keys, instructions |-> instrs]
ParsedMessage == [form |-> "Parsed"]
Json(sigs, msg) == [enc |-> "Json", json |-> [signatures |-> sigs, message |-> msg]]
Encoded(t, m) == [transaction |-> t, meta |-> m]

Keys == {"Mailbox", "MsgPda", "System"}
Signatures == {"sigA", "sigB", "bad"}
Payloads == {"0", "z", "2", "5", "6"}
InstructionKinds == {"InboxProcess", "OutboxDispatch", "OutboxGetCount"}

\* A well-formed dispatch: the Mailbox is key 1, the message PDA key 2.
BaseKeys == <<"System", "Mailbox", "MsgPda">>
BaseInstr == Compiled(1, <<0, 2>>, "5")
BaseMessage == RawMessage(BaseKeys, <<BaseInstr>>)
BaseMeta == Some(Meta(OptNone))
JsonTx(sigs, keys, instrs, inner) == Encoded(Json(sigs, RawMessage(keys, instrs)), Some(Meta(inner)))

\* Every shape of encoding, metadata, signature list and message form.
ShapeTxs ==
    {Encoded(t, m) :
        t \in {[enc |-> "LegacyBinary"], [enc |-> "Binary"], [enc |-> "Accounts"]}
              \cup {Json(sigs, msg) : sigs \in SeqsOf(Signatures, 0, MaxSigs),
                                      msg \in {BaseMessage, ParsedMessage}},
        m \in {None, BaseMeta}}

\* One transaction per failure mode, and matching ones.
BatchTxs ==
    {Encoded([enc |-> "Binary"], BaseMeta), Encoded(Json(<<"sigA">>, BaseMessage), None),
     Encoded(Json(<<"sigA">>, ParsedMessage), BaseMeta)}
    \cup {Encoded(Json(sigs, BaseMessage), BaseMeta) : sigs \in {<<>>, <<"bad", "sigA">>}}
    \cup {JsonTx(<<"sigA">>, BaseKeys, <<Compiled(1, <<0, 2>>, d)>>, OptNone) : d \in {"0", "z"}}
    \cup {JsonTx(<<s>>, BaseKeys, <<Compiled(1, <<0, 2>>, d)>>, OptNone) :
            s \in {"sigA", "sigB"}, d \in {"2", "5"}}

\* Instructions that call the Mailbox or another program, with or without the
\* message PDA among their accounts.
InvocationInstrs ==
    {Compiled(0, <<2>>, "5"), Compiled(1, <<0>>, "5")}
    \cup {Compiled(1, <<0, 2>>, d) : d \in Payloads}

\* A flattened sequence cut after k instructions: the first k top-level, the
\* rest in one inner trace.
InvocationTxs ==
    {JsonTx(<<"sigA">>, BaseKeys, SubSeq(f[1], 1, f[2]),
            IF f[2] = Len(f[1]) THEN OptNone
            ELSE OptSome(<<UiInnerInstructions(0,
                    [i \in 1..(Len(f[1]) - f[2]) |-> UiCompiled(f[1][f[2] + i])])>>)) :
        f \in {g \in SeqsOf(InvocationInstrs, 0, MaxFlat) \X (0..MaxFlat) : g[2] <= Len(g[1])}}

\* Top-level instructions and inner traces of every shape: no trace, one
\* trace, or a sequence of inner instructions cut into two traces.
FlattenInstrs == {BaseInstr, Compiled(0, <<>>, "6")}
UiInstrs == {UiCompiled(ci) : ci \in FlattenInstrs} \cup {UiParsed}
InnerShapes ==
    {OptNone, OptSkip, OptSome(<<>>)}
    \cup {OptSome(<<UiInnerInstructions(0, s)>>) : s \in SeqsOf(UiInstrs, 0, MaxInner)}
    \cup {OptSome(<<UiInnerInstructions(0, SubSeq(g[1], 1, g[2])),
                    UiInnerInstructions(1, SubSeq(g[1], g[2] + 1, Len(g[1])))>>) :
            g \in {h \in SeqsOf(UiInstrs, 0, MaxInner) \X (0..MaxInner) : h[2] <= Len(h[1])}}
FlattenTxs ==
    {JsonTx(<<"sigA">>, BaseKeys, top, inner) :
        top \in SeqsOf(FlattenInstrs, 0, MaxTop), inner \in InnerShapes}

\* Account key lists: short ones, and ones long enough for a position not to
\* fit 8 bits (a filler of distinct keys between a head and a tail).
Filler(n) == [i \in 1..n |-> "Filler" \o ToString(i)]
KeyLists ==
    SeqsOf(Keys, 0, MaxKeys)
    \cup {h \o Filler(n) \o t :
            h \in SeqsOf(Keys, 0, 1), n \in {U8 - 2, U8 - 1, U8}, t \in SeqsOf(Keys, 0, MaxTail)}
IndexChoices == {0, 1, 2, U8 - 1}
KeysTxs ==
    {JsonTx(<<"sigA">>, keys, <<Compiled(p, <<a>>, d)>>, OptNone) :
        keys \in KeyLists, p \in IndexChoices, a \in IndexChoices, d \in {"2", "5"}}

----------------------------------------------------------------------------
\* Specifications: the same pipeline over each family of inputs.

InitWith(batches, predicates) ==
    /\ transactions \in batches
    /\ is_specified_message_instruction \in predicates
    /\ index = 0
    /\ stage = "encoding"
    /\ cur = None
    /\ locals = None
    /\ result = <<>>

Init == InitWith(SeqsOf(BatchTxs, 0, MaxBatch), NamedPredicates)
InitShape == InitWith(SeqsOf(ShapeTxs, 1, 1), {"is_message_dispatch_instruction"})
InitInvocation == InitWith(SeqsOf(InvocationTxs, 1, 1), Predicates)
InitFlatten == InitWith(SeqsOf(FlattenTxs, 1, 1), {"is_message_dispatch_instruction"})
InitKeys == InitWith(SeqsOf(KeysTxs, 1, 1), NamedPredicates)

Spec == Init /\ [][Next]_vars
SpecShape == InitShape /\ [][Next]_vars
SpecInvocation == InitInvocation /\ [][Next]_vars
SpecFlatten == InitFlatten /\ [][Next]_vars
SpecKeys == InitKeys /\ [][Next]_vars

----------------------------------------------------------------------------
\* Vocabulary of the properties, stated on the batch as it was handed in.

TxAt(i) == transactions[i + 1]
Processed == 0..(index - 1)
Returned == {result[k][1] : k \in DOMAIN result}

IsJson(tx) == tx.transaction.enc = "Json"
SignaturesOf(tx) == tx.transaction.json.signatures
MessageOf(tx) == tx.transaction.json.message
FirstSignatureDecodes(tx) ==
    SignaturesOf(tx) # <<>> /\ decode_h512(SignaturesOf(tx)[1]).ok
\* The transaction passes the encoding and validity stages.
Eligible(tx) ==
    IsJson(tx) /\ tx.meta.some /\ FirstSignatureDecodes(tx) /\ MessageOf(tx).form = "Raw"
HashOf(tx) == decode_h512(SignaturesOf(tx)[1]).val

AccountKeys(tx) == MessageOf(tx).account_keys
TopLevel(tx) == MessageOf(tx).instructions
Traces(tx) ==
    IF tx.meta.val.inner_instructions.tag = "Some" THEN tx.meta.val.inner_instructions.val ELSE <<>>

\* Where a compiled instruction is recorded: <<0, i>> is the i-th top-level
\* instruction, <<t, p>> the p-th instruction of the t-th inner trace.
Occurrences(tx) ==
    {<<0, i>> : i \in DOMAIN TopLevel(tx)}
    \cup {c \in UNION {{<<t, p>> : p \in DOMAIN Traces(tx)[t].instructions} : t \in DOMAIN Traces(tx)} :
            Traces(tx)[c[1]].instructions[c[2]].kind = "Compiled"}
InstrAt(tx, c) ==
    IF c[1] = 0 THEN TopLevel(tx)[c[2]] ELSE Traces(tx)[c[1]].instructions[c[2]].ci
Before(c, d) == c[1] < d[1] \/ (c[1] = d[1] /\ c[2] < d[2])

Positions(keys, key) == {i \in DOMAIN keys : keys[i] = key}
MailboxKey == PubkeyToString(mailbox_program_id)
PdaKey == PubkeyToString(message_storage_pda_pubkey)
HasKeys(tx) ==
    Positions(AccountKeys(tx), MailboxKey) # {} /\ Positions(AccountKeys(tx), PdaKey) # {}
\* The index an instruction has to carry to refer to the key: its (last)
\* position in the list, counted from zero, in 8 bits.
TargetIndex(keys, key) ==
    ((CHOOSE i \in Positions(keys, key) : \A j \in Positions(keys, key) : j <= i) - 1) % U8

Invocations(tx) ==
    {c \in Occurrences(tx) :
        InstrAt(tx, c).program_id_index = TargetIndex(AccountKeys(tx), MailboxKey)}
FirstInvocation(tx) ==
    CHOOSE c \in Invocations(tx) : \A d \in Invocations(tx) : d = c \/ Before(c, d)
References(tx, c) ==
    \E j \in DOMAIN InstrAt(tx, c).accounts :
        InstrAt(tx, c).accounts[j] = TargetIndex(AccountKeys(tx), PdaKey)
Base58Fails(data) == ~from_base58(data).ok
LayoutFails(data) ==
    from_base58(data).ok /\ ~from_instruction_data(from_base58(data).val).ok
Decodes(data) == ~Base58Fails(data) /\ ~LayoutFails(data)
KindOf(data) == from_instruction_data(from_base58(data).val).val
\* The invocation at c is on the message account, decodes, and the predicate
\* does not signal "exclude".
Accepted(tx, c, f) ==
    /\ References(tx, c)
    /\ Decodes(InstrAt(tx, c).data)
    /\ ~Apply(f, KindOf(InstrAt(tx, c).data))
\* Steps 1 to 5 of the relevancy filter pass.
ReachesStep6(tx) ==
    /\ Eligible(tx) /\ HasKeys(tx) /\ Invocations(tx) # {}
    /\ References(tx, FirstInvocation(tx))
    /\ Decodes(InstrAt(tx, FirstInvocation(tx)).data)
FirstKind(tx) == KindOf(InstrAt(tx, FirstInvocation(tx)).data)
Matches(tx, f) ==
    Eligible(tx) /\ HasKeys(tx) /\ Invocations(tx) # {} /\ Accepted(tx, FirstInvocation(tx), f)

----------------------------------------------------------------------------
\* C1: every returned transaction is one for whose decoded mailbox
\* instruction is_specified_message_instruction returns true.
C1_ReturnedOnlyWhenPredicateTrue ==
    \A i \in Returned :
        /\ ReachesStep6(TxAt(i))
        /\ Apply(is_specified_message_instruction, FirstKind(TxAt(i)))

C3_OrderedByBatchIndex ==
    /\ \A k \in DOMAIN result :
        /\ result[k][1] \in Processed
        /\ result[k][1] < Len(transactions)
        /\ k > 1 => result[k - 1][1] < result[k][1]
        /\ Matches(TxAt(result[k][1]), is_specified_message_instruction)
        /\ result[k][2] = HashOf(TxAt(result[k][1]))
    /\ \A i \in Processed :
        Matches(TxAt(i), is_specified_message_instruction) => i \in Returned

C3_Witness ==
    /\ stage = "done"
    /\ Len(result) = 2
    /\ result[1][1] = 0
    /\ result[2][1] = 2
    /\ result[1][2] # result[2][2]

\* One of the failure modes of a transaction.
FailureMode(tx) ==
    \/ ~IsJson(tx)
    \/ ~tx.meta.some
    \/ ~FirstSignatureDecodes(tx)
    \/ MessageOf(tx).form # "Raw"
    \/ /\ HasKeys(tx) /\ Invocations(tx) # {} /\ References(tx, FirstInvocation(tx))
       /\ ~Decodes(InstrAt(tx, FirstInvocation(tx)).data)

\* C4: a transaction in any failure mode is left out, the call never stops
\* before it returns (some stage can always take the item in the pipeline,
\* and the call returns only after the whole batch), and the result is
\* exactly what each processed transaction yields on its own, under its own
\* index.
C4_FailuresStayLocal ==
    /\ \/ stage = "encoding" /\ index <= Len(transactions)
       \/ stage \in {"validity", "relevancy"} /\ cur.some /\ index < Len(transactions)
       \/ stage = "done" /\ index = Len(transactions)
    /\ \A i \in Processed : FailureMode(TxAt(i)) => i \notin Returned
    /\ \A i \in Processed :
        LET alone == Pipeline(TxAt(i), is_specified_message_instruction)
        IN  /\ (i \in Returned) <=> alone.some
            /\ alone.some => \E k \in DOMAIN result : result[k] = <<i, alone.val>>
    /\ Len(result) = Cardinality(Returned)

C4_Witness ==
    /\ stage = "done"
    /\ \E i \in Processed :
        /\ Eligible(TxAt(i)) /\ Base58Fails(InstrAt(TxAt(i), FirstInvocation(TxAt(i))).data)
        /\ i + 1 \in Returned
    /\ \E i \in Processed : ~IsJson(TxAt(i)) /\ i - 1 \in Returned
\* C5: every returned pair (i, h) belongs to a JSON-encoded entry with
\* metadata, a Raw message and at least one signature, and h is the decoding
\* of its first signature; an entry whose first signature is absent or does
\* not decode is never returned, whatever its later signatures are, and
\* whether an entry is returned depends on no signature but the first.
C5_FirstSignatureDecides ==
    /\ \A k \in DOMAIN result :
        LET tx == TxAt(result[k][1])
        IN  /\ IsJson(tx) /\ tx.meta.some
            /\ MessageOf(tx).form = "Raw"
            /\ Len(SignaturesOf(tx)) >= 1
            /\ decode_h512(SignaturesOf(tx)[1]).ok
            /\ result[k][2] = decode_h512(SignaturesOf(tx)[1]).val
    /\ \A i \in Processed :
        /\ (IsJson(TxAt(i)) /\ ~FirstSignatureDecodes(TxAt(i))) => i \notin Returned
        /\ (i \in Returned) <=> Matches(TxAt(i), is_specified_message_instruction)

C5_Witness ==
    /\ stage = "done"
    /\ \E k \in DOMAIN result :
        /\ SignaturesOf(TxAt(result[k][1])) = <<"sigA", "sigB">>
        /\ result[k][2] = "hashA"

\* The instruction at c matches program, account and expected kind.
MatchesAll(tx, c, f) == c \in Invocations(tx) /\ Accepted(tx, c, f)

\* C6 as stated: a transaction that passes encoding and validity and has an
\* inner instruction matching program, account and expected kind is returned,
\* whatever its top-level instructions are, as long as none of them matches
\* all three.
C6_InnerMatchIncluded ==
    \A i \in Processed :
        LET tx == TxAt(i)
        IN  (/\ Eligible(tx) /\ HasKeys(tx)
             /\ \E c \in Occurrences(tx) :
                    c[1] >= 1 /\ MatchesAll(tx, c, is_specified_message_instruction)
             /\ \A c \in Occurrences(tx) :
                    c[1] = 0 => ~MatchesAll(tx, c, is_specified_message_instruction))
            => i \in Returned

\* C6 amended: such a transaction is returned when the matching inner
\* instruction is the first invocation of the target program in the flattened
\* sequence: no top-level instruction and no earlier compiled inner
\* instruction carries the target program's index.
C6_FirstInnerMatchIncluded ==
    \A i \in Processed :
        LET tx == TxAt(i)
        IN  (/\ Eligible(tx) /\ HasKeys(tx)
             /\ \E c \in Occurrences(tx) :
                    /\ c[1] >= 1 /\ MatchesAll(tx, c, is_specified_message_instruction)
                    /\ \A d \in Invocations(tx) : d = c \/ Before(c, d))
            => i \in Returned

C6_Witness ==
    /\ stage = "done"
    /\ 0 \in Returned
    /\ TopLevel(TxAt(0)) # <<>>
    /\ FirstInvocation(TxAt(0))[1] >= 1

\* C7: a transaction whose account key list lacks the target program
\* identifier or the target account identifier is never returned.
C7_MissingKeyExcluded ==
    \A i \in Processed :
        (IsJson(TxAt(i)) /\ MessageOf(TxAt(i)).form = "Raw" /\ ~HasKeys(TxAt(i)))
            => i \notin Returned

\* A list without the Mailbox key, and an instruction whose program index 0
\* and account index 0 point at the message PDA.
C7_Witness ==
    /\ stage = "done"
    /\ Returned = {}
    /\ AccountKeys(TxAt(0)) = <<"MsgPda", "System">>
    /\ TopLevel(TxAt(0)) = <<Compiled(0, <<0>>, "5")>>
    /\ is_specified_message_instruction = "is_message_dispatch_instruction"

\* C8: when the target program is invoked, the first invocation in the
\* flattened sequence alone decides: the transaction is returned exactly when
\* that invocation references the target account, decodes and is not rejected
\* by the predicate, whatever the later invocations are.
C8_FirstInvocationDecides ==
    \A i \in Processed :
        LET tx == TxAt(i)
        IN  (Eligible(tx) /\ HasKeys(tx) /\ Invocations(tx) # {})
            => ((i \in Returned)
                    <=> Accepted(tx, FirstInvocation(tx), is_specified_message_instruction))

\* The first invocation is rejected, a later one would have been accepted.
C8_Witness ==
    /\ stage = "done"
    /\ Returned = {}
    /\ Invocations(TxAt(0)) # {}
    /\ \E c \in Invocations(TxAt(0)) :
        /\ Before(FirstInvocation(TxAt(0)), c)
        /\ c[1] >= 1
        /\ Accepted(TxAt(0), c, is_specified_message_instruction)

\* C9: the sequence instructions() hands to the relevancy filter holds the
\* top-level instructions in their order, then the Compiled inner instructions
\* in trace order: every recorded compiled instruction sits at the position
\* given by the number of those recorded before it, nothing else is in the
\* sequence, and without inner traces (None, Skip) it is the top-level list.
C9_FlattenedInOrder ==
    stage = "relevancy" =>
        LET tx == TxAt(index)
            flat == cur.val.instructions
        IN  /\ Len(flat) = Cardinality(Occurrences(tx))
            /\ Len(flat) = Len(TopLevel(tx))
                    + Cardinality({c \in Occurrences(tx) : c[1] >= 1})
            /\ \A c \in Occurrences(tx) :
                flat[1 + Cardinality({d \in Occurrences(tx) : Before(d, c)})] = InstrAt(tx, c)
            /\ SubSeq(flat, 1, Len(TopLevel(tx))) = TopLevel(tx)
            /\ tx.meta.val.inner_instructions.tag \in {"None", "Skip"} => flat = TopLevel(tx)

\* Two distinct top-level instructions, two traces, a dropped non-Compiled
\* instruction between two kept ones.
C9_Witness ==
    /\ stage = "relevancy"
    /\ Len(TopLevel(TxAt(index))) = 2
    /\ TopLevel(TxAt(index))[1] # TopLevel(TxAt(index))[2]
    /\ Len(Traces(TxAt(index))) = 2
    /\ Traces(TxAt(index))[1].instructions = <<UiCompiled(BaseInstr), UiParsed>>
    /\ Traces(TxAt(index))[2].instructions = <<UiCompiled(Compiled(0, <<>>, "6"))>>
    /\ Len(cur.val.instructions) = 4

\* The index compared for a key is its position in 8 bits.
NarrowedFor(keys, key, compared) ==
    /\ (Len(keys) <= U8 /\ compared.some) => keys[compared.val + 1] = key
    /\ \A p \in U8..(Len(keys) - 1) :
        Positions(keys, key) = {p + 1} =>
            /\ compared = Some(p % U8)
            /\ compared.val # p
            /\ keys[compared.val + 1] # key

\* C10: the indices filter_by_relevancy compares with are the key positions
\* in 8 bits.  In a list of at most 256 keys they are true positions: the
\* compared index, and the program index of the instruction found, point at
\* the target key.  When the target key sits (only) at a position p >= 256,
\* the compared index is p mod 256, which is another position, holding
\* another key.
C10_IndicesNarrowedToU8 ==
    locals.some =>
        LET keys == AccountKeys(TxAt(locals.val.index))
            l == locals.val.l
        IN  /\ NarrowedFor(keys, MailboxKey, l.mailbox_program_index)
            /\ NarrowedFor(keys, PdaKey, l.message_storage_pda_account_index)
            /\ (Len(keys) <= U8 /\ l.mailbox_program.some)
                    => keys[l.mailbox_program.val.program_id_index + 1] = MailboxKey
            /\ (Len(keys) <= U8 /\ locals.val.index \in Returned)
                    => \E j \in DOMAIN l.mailbox_program.val.accounts :
                            keys[l.mailbox_program.val.accounts[j] + 1] = PdaKey
            /\ \A p \in U8..(Len(keys) - 1) :
                (Positions(keys, MailboxKey) = {p + 1} /\ l.mailbox_program.some)
                    => /\ l.mailbox_program.val.program_id_index = p % U8
                       /\ keys[l.mailbox_program.val.program_id_index + 1] # MailboxKey

\* The Mailbox key at position 256 only: the instruction with program index 0,
\* which is the message PDA's position, is taken for the Mailbox call and the
\* transaction is returned.
C10_Witness ==
    /\ stage = "done"
    /\ 0 \in Returned
    /\ Len(AccountKeys(TxAt(0))) = U8 + 1
    /\ Positions(AccountKeys(TxAt(0)), MailboxKey) = {U8 + 1}
    /\ AccountKeys(TxAt(0))[1] = PdaKey
    /\ locals.val.l.mailbox_program.val.program_id_index = 0
====
